---- MODULE Spec2Model ----
(***************************************************************************)
(* Model of DividientUtiles/FilterU.S.DividendChampionsExcel.py: the       *)
(* pipeline of main() -- match_columns, apply_filters,                     *)
(* round_numeric_columns, save_filtered_df, format_excel_file,             *)
(* validate_filtered_rows -- over a small input table.                     *)
(*                                                                         *)
(* Numbers are fixed point: a float x is the integer x * Scale.  Texts     *)
(* (headers, column names, string cells) are sequences of one-character    *)
(* strings, so that substring matching, str(), str.replace() and float()   *)
(* are computed character by character.                                    *)
(***************************************************************************)
EXTENDS Integers, Sequences, FiniteSets, TLC

\* ------------------------------------------------------------------ numbers

\* round(x, 2) keeps two decimals: one hundredth is Scale \div Cent.
Cent == 100

\* The fixed-point unit: four decimals (25.0049 is 250049).
Scale == Cent * Cent

Abs(x) == IF x < 0 THEN -x ELSE x

\* ------------------------------------------------------------------- cells

\* A DataFrame cell: a number, NaN (an empty spreadsheet cell), or a string.
Num(x) == [k |-> "num", v |-> x, s |-> <<>>]

NaN == [k |-> "nan", v |-> 0, s |-> <<>>]

Txt(t) == [k |-> "str", v |-> 0, s |-> t]

\* A worksheet cell without a value (openpyxl's None).
None == [k |-> "none", v |-> 0, s |-> <<>>]

\* The result of float(): a number, nan, or ValueError.
ParseOk(x) == [ok |-> TRUE, nan |-> FALSE, v |-> x]

ParseNaN == [ok |-> TRUE, nan |-> TRUE, v |-> 0]

ParseError == [ok |-> FALSE, nan |-> FALSE, v |-> 0]

\* ------------------------------------------------------------------- texts

DigitChars == <<"0", "1", "2", "3", "4", "5", "6", "7", "8", "9">>

DigitSet == {DigitChars[i] : i \in 1..10}

DigitOf == [c \in DigitSet |-> (CHOOSE i \in 1..10 : DigitChars[i] = c) - 1]

IsDigit(c) == c \in DigitSet

DigitValue(c) == DigitOf[c]

UpperChars == <<"A", "B", "C", "D", "E", "F", "G", "H", "I", "J", "K", "L", "M",
                "N", "O", "P", "Q", "R", "S", "T", "U", "V", "W", "X", "Y", "Z">>

LowerChars == <<"a", "b", "c", "d", "e", "f", "g", "h", "i", "j", "k", "l", "m",
                "n", "o", "p", "q", "r", "s", "t", "u", "v", "w", "x", "y", "z">>

UpperSet == {UpperChars[i] : i \in 1..26}

LowerOf == [c \in UpperSet |-> LowerChars[CHOOSE i \in 1..26 : UpperChars[i] = c]]

\* str.lower(), one character.
LowerChar(c) == IF c \in UpperSet THEN LowerOf[c] ELSE c

\* str.lower()
Lower(t) == [i \in 1..Len(t) |-> LowerChar(t[i])]

\* a in b, for strings
IsSubstring(a, b) ==
    \E i \in 0..(Len(b) - Len(a)) : SubSeq(b, i + 1, i + Len(a)) = a

\* The decimal digits of a natural number.
RECURSIVE NatText(_)
NatText(n) ==
    IF n < 10 THEN <<DigitChars[n + 1]>>
    ELSE NatText(n \div 10) \o <<DigitChars[(n % 10) + 1]>>

\* The digits of the fraction f / (10 * unit), without trailing zeros.
RECURSIVE FracText(_, _)
FracText(f, unit) ==
    IF unit = 0 THEN <<>>
    ELSE <<DigitChars[(f \div unit) + 1]>> \o
         (IF f % unit = 0 THEN <<>> ELSE FracText(f % unit, unit \div 10))

\* str(x) of a float: the shortest text that reads back as x ("30.0", "6.004").
FloatText(x) ==
    (IF x < 0 THEN <<"-">> ELSE <<>>) \o NatText(Abs(x) \div Scale) \o <<".">> \o
    FracText(Abs(x) % Scale, Scale \div 10)

\* str(x) of a cell.
Str(x) ==
    CASE x.k = "num" -> FloatText(x.v)
      [] x.k = "nan" -> <<"n", "a", "n">>
      [] x.k = "none" -> <<"N", "o", "n", "e">>
      [] OTHER -> x.s

\* .replace('%', '').replace(',', '')
StripChars(t) == SelectSeq(t, LAMBDA c : c \notin {"%", ","})

RECURSIVE DigitsValue(_)
DigitsValue(t) ==
    IF t = <<>> THEN 0
    ELSE DigitsValue(SubSeq(t, 1, Len(t) - 1)) * 10 + DigitValue(t[Len(t)])

RECURSIVE FracValue(_, _)
FracValue(t, unit) ==
    IF t = <<>> \/ unit = 0 THEN 0
    ELSE DigitValue(t[1]) * unit + FracValue(Tail(t), unit \div 10)

\* float(t) of a text: an optional sign, then "nan" in any case, or digits with at
\* most one point and at least one digit; anything else raises ValueError.  (The
\* texts of the model hold no blank, exponent, underscore or "inf".)
ParseFloat(t) ==
    LET signed == Len(t) > 0 /\ t[1] \in {"+", "-"}
        body == IF signed THEN Tail(t) ELSE t
        sign == IF signed /\ t[1] = "-" THEN -1 ELSE 1
        points == {i \in 1..Len(body) : body[i] = "."}
        cut == IF points = {} THEN Len(body) + 1 ELSE CHOOSE i \in points : TRUE
        whole == SubSeq(body, 1, cut - 1)
        frac == SubSeq(body, cut + 1, Len(body))
    IN  IF Lower(body) = <<"n", "a", "n">> THEN ParseNaN
        ELSE IF /\ Cardinality(points) <= 1
                /\ \A i \in 1..Len(body) : i \in points \/ IsDigit(body[i])
                /\ Len(whole) + Len(frac) > 0
             THEN ParseOk(sign * (DigitsValue(whole) * Scale + FracValue(frac, Scale \div 10)))
             ELSE ParseError

\* float(x) of a cell: a number is itself, NaN is nan, a string is parsed.
Float(x) ==
    CASE x.k = "num" -> ParseOk(x.v)
      [] x.k = "nan" -> ParseNaN
      [] x.k = "none" -> ParseError
      [] OTHER -> ParseFloat(x.s)

\* float(str(x).replace('%', '').replace(',', ''))
Normalize(x) == ParseFloat(StripChars(Str(x)))

\* operator.gt / operator.le on floats; every comparison with nan is False.
Compare(op, a, b) ==
    /\ ~a.nan
    /\ CASE op = "gt" -> a.v > b
         [] op = "le" -> a.v <= b

\* round(x, 2): to the nearest hundredth.  A decimal tie (x.xx5) is a tie of the
\* binary float only when it is exact in binary, and then goes to the even hundredth.
Round2(x) ==
    LET h == Scale \div Cent
        a == Abs(x)
        q == a \div h
        r == a % h
        up == (2 * r > h) \/ (2 * r = h /\ q % 2 = 1)
        m == (IF up THEN q + 1 ELSE q) * h
    IN  IF x < 0 THEN -m ELSE m


\* ----------------------------------------------------------- configuration

\* class Colors; NoColor is the absent font_color entry of a style dict.
RED_COLOR == "EA3323"

BLUE_COLOR == "2F6EBA"

GRAY_COLOR == "808080"

NoColor == "none"

MARKET_DIVIDEND_YIELD == (134 * Scale) \div 100

UPPER_LIMIT_FOR_DIVIDEND_YIELD == 2 * Scale

FREEZING_CELL == "C2"

\* filter=(op_func, val), or None
Filter(o, x) == [on |-> TRUE, op |-> o, val |-> x]

NoFilter == [on |-> FALSE, op |-> "gt", val |-> 0]

\* style={font_color, bold}, or None
Style(color, b) == [on |-> TRUE, font_color |-> color, bold |-> b]

NoStyle == [on |-> FALSE, font_color |-> NoColor, bold |-> FALSE]

\* conditional_style={"condition": (op, threshold), font_color}, or None
ConditionalStyle(o, x, color) ==
    [on |-> TRUE, op |-> o, val |-> x, font_color |-> color, bold |-> FALSE]

NoConditionalStyle ==
    [on |-> FALSE, op |-> "gt", val |-> 0, font_color |-> NoColor, bold |-> FALSE]

ColumnSettings(name, f, st, cs) ==
    [column_name |-> name, filter |-> f, style |-> st, conditional_style |-> cs]

column_definitions == <<
    ColumnSettings(<<"C", "o", "m", "p", "a", "n", "y", " ", "N", "a", "m", "e">>,
                   NoFilter, NoStyle, NoConditionalStyle),
    ColumnSettings(<<"T", "i", "c", "k", "e", "r", " ", "S", "y", "m", "b", "o", "l">>,
                   NoFilter, NoStyle, NoConditionalStyle),
    ColumnSettings(<<"S", "e", "c", "t", "o", "r">>,
                   NoFilter, NoStyle, NoConditionalStyle),
    ColumnSettings(<<"I", "n", "d", "u", "s", "t", "r", "y">>,
                   NoFilter, NoStyle, NoConditionalStyle),
    ColumnSettings(<<"N", "o", ".", " ", "Y", "r", "s">>,
                   Filter("gt", 25 * Scale), Style(NoColor, TRUE), NoConditionalStyle),
    ColumnSettings(<<"P", "r", "i", "c", "e">>,
                   NoFilter, Style(BLUE_COLOR, FALSE), NoConditionalStyle),
    ColumnSettings(<<"D", "i", "v", ".", " ", "Y", "i", "e", "l", "d">>,
                   Filter("gt", MARKET_DIVIDEND_YIELD), NoStyle, ConditionalStyle("gt", UPPER_LIMIT_FOR_DIVIDEND_YIELD, RED_COLOR)),
    ColumnSettings(<<"M", "R", "%", " ", "I", "n", "c", ".">>,
                   Filter("gt", 6 * Scale), Style(GRAY_COLOR, FALSE), NoConditionalStyle),
    ColumnSettings(<<"D", "G", "R", " ", "1", "-", "y", "r">>,
                   Filter("gt", 6 * Scale), Style(GRAY_COLOR, FALSE), NoConditionalStyle),
    ColumnSettings(<<"D", "G", "R", " ", "3", "-", "y", "r">>,
                   Filter("gt", 6 * Scale), Style(GRAY_COLOR, FALSE), NoConditionalStyle),
    ColumnSettings(<<"D", "G", "R", " ", "5", "-", "y", "r">>,
                   Filter("gt", 6 * Scale), Style(GRAY_COLOR, FALSE), NoConditionalStyle),
    ColumnSettings(<<"D", "G", "R", " ", "1", "0", "-", "y", "r">>,
                   Filter("gt", 6 * Scale), Style(GRAY_COLOR, FALSE), NoConditionalStyle),
    ColumnSettings(<<"E", "P", "S", "%", " ", "P", "a", "y", "o", "u", "t">>,
                   Filter("le", 60 * Scale), NoStyle, NoConditionalStyle),
    ColumnSettings(<<"P", "a", "s", "t", " ", "5", "y", "r", " ", "G", "r", "o", "w", "t", "h">>,
                   Filter("gt", 0), Style(BLUE_COLOR, FALSE), NoConditionalStyle),
    ColumnSettings(<<"E", "s", "t", "-", "5", "y", "r", " ", "G", "r", "o", "w", "t", "h">>,
                   Filter("gt", 0), Style(BLUE_COLOR, FALSE), NoConditionalStyle),
    ColumnSettings(<<"M", "k", "t", "C", "a", "p", " ", "(", "$", "M", "i", "l", ")">>,
                   NoFilter, Style(BLUE_COLOR, FALSE), NoConditionalStyle),
    ColumnSettings(<<"D", "e", "b", "t", "/", " ", "E", "q", "u", "i", "t", "y">>,
                   NoFilter, Style(BLUE_COLOR, FALSE), NoConditionalStyle) >>

\* The tolerance of validate_filtered_rows: 1e-3.
Tolerance == Scale \div 1000

\* ------------------------------------------------------------- data frames

\* A DataFrame: its column labels, the dtype of each column ("number" for a float or
\* int column, "object" for one that holds a string), and its rows, each with its
\* index label and one cell per column.
DataFrame(cols, types, rs) == [columns |-> cols, dtypes |-> types, rows |-> rs]

\* The position of the column labelled col: df[col].
ColumnPos(df, col) == CHOOSE i \in 1..Len(df.columns) : df.columns[i] = col

\* pd.notnull(x)
NotNull(x) == x.k \notin {"nan", "none"}

\* ------------------------------------------------------------ match_columns

\* Mutant of Matches: the names compared as written, without lower().
MatchesCaseSensitive(df, name) ==
    SelectSeq(df.columns, LAMBDA c : IsSubstring(name, c))

\* matches = [c for c in data_df.columns if col_def.column_name.lower() in c.lower()]
Matches(df, name) ==
    LET lowered == Lower(name)
    IN  SelectSeq(df.columns, LAMBDA c : IsSubstring(lowered, Lower(c)))

\* matched: column_name -> matches[0], for the definitions that have a match.
match_columns(df) ==
    LET names == {column_definitions[i].column_name : i \in 1..Len(column_definitions)}
    IN  [n \in {x \in names : Matches(df, x) # <<>>} |-> Matches(df, n)[1]]

\* The "Warning: Column ... not found" lines, in the order printed.  The suggestion
\* of difflib.get_close_matches appears in the printed line only.
MatchWarnings(df) ==
    LET unmatched == SelectSeq(column_definitions,
                               LAMBDA d : Matches(df, d.column_name) = <<>>)
    IN  [i \in 1..Len(unmatched) |-> unmatched[i].column_name]

\* ------------------------------------------------------------ apply_filters

\* The lambda of apply_filters raises ValueError on a cell that is not null and
\* whose text, without '%' and ',', float() does not read.
CellRaises(x) == NotNull(x) /\ ~Normalize(x).ok

\* op_func(float(str(x).replace('%', '').replace(',', '')), val) if pd.notnull(x) else False
CellPasses(x, f) ==
    /\ NotNull(x)
    /\ LET n == Normalize(x) IN n.ok /\ Compare(f.op, n, f.val)

\* One column's filter: Series.apply runs the lambda on every remaining row; an
\* exception of any row leaves the try block before filtered_df is assigned, so the
\* rows stay as they were and the error is printed.
\* On a frame without rows Series.apply returns an empty Series of the column's
\* dtype, which is no boolean mask (emptied).
FilterColumn(st, pos, col, f) ==
    IF \E i \in 1..Len(st.rows) : CellRaises(st.rows[i].cells[pos])
    THEN [rows |-> st.rows, errors |-> Append(st.errors, col), emptied |-> st.emptied]
    ELSE [rows |-> SelectSeq(st.rows, LAMBDA r : CellPasses(r.cells[pos], f)),
          errors |-> st.errors,
          emptied |-> st.emptied \/ st.rows = <<>>]

\* for col_def in column_definitions: ... (the loop of apply_filters, from definition i)
RECURSIVE FilterLoop(_, _, _, _, _)
FilterLoop(defs, i, df, m, st) ==
    IF i > Len(defs) THEN st
    ELSE LET d == defs[i]
         IN  IF d.filter.on /\ d.column_name \in DOMAIN m
             THEN FilterLoop(defs, i + 1, df, m,
                             FilterColumn(st, ColumnPos(df, m[d.column_name]),
                                          m[d.column_name], d.filter))
             ELSE FilterLoop(defs, i + 1, df, m, st)

\* final_cols = [matched[c.column_name] for c in column_definitions if c.column_name in matched]
FinalCols(m) ==
    LET ds == SelectSeq(column_definitions, LAMBDA d : d.column_name \in DOMAIN m)
    IN  [i \in 1..Len(ds) |-> m[ds[i].column_name]]

\* filtered_df[final_cols]
Project(df, rs, cols) ==
    LET pos == [i \in 1..Len(cols) |-> ColumnPos(df, cols[i])]
    IN  DataFrame(cols,
                  [i \in 1..Len(cols) |-> df.dtypes[pos[i]]],
                  [j \in 1..Len(rs) |->
                      [idx |-> rs[j].idx,
                       cells |-> [i \in 1..Len(cols) |-> rs[j].cells[pos[i]]]]])

\* apply_filters with the filters taken in the order of defs.
ApplyFiltersIn(defs, df, m) ==
    LET st == FilterLoop(defs, 1, df, m,
                         [rows |-> df.rows, errors |-> <<>>, emptied |-> FALSE])
    IN  [df |-> Project(df, st.rows, FinalCols(m)), errors |-> st.errors,
         emptied |-> st.emptied]

apply_filters(df, m) == ApplyFiltersIn(column_definitions, df, m)

\* ---------------------------------------------------- round_numeric_columns

\* round(x, 2) if isinstance(x, float) else x; round(nan, 2) is nan.
RoundCell(x) == IF x.k = "num" THEN Num(Round2(x.v)) ELSE x

\* Only the columns select_dtypes(include=['float', 'int']) returns are mapped.
round_numeric_columns(df) ==
    DataFrame(df.columns, df.dtypes,
              [j \in 1..Len(df.rows) |->
                  [idx |-> df.rows[j].idx,
                   cells |-> [i \in 1..Len(df.columns) |->
                                 IF df.dtypes[i] = "number"
                                 THEN RoundCell(df.rows[j].cells[i])
                                 ELSE df.rows[j].cells[i]]]])

\* --------------------------------------------------------- save_filtered_df

\* What the workbook holds for a DataFrame cell once written by to_excel and loaded
\* by load_workbook: NaN and the empty string are cells without a value.
SheetValue(x) == IF x.k = "nan" \/ (x.k = "str" /\ x.s = <<>>) THEN None ELSE x

\* str(cell.value) of a worksheet cell: a float without a fraction is stored, and
\* loaded, as an int.
SheetText(x) ==
    IF x.k = "num" /\ x.v % Scale = 0
    THEN (IF x.v < 0 THEN <<"-">> ELSE <<>>) \o NatText(Abs(x.v) \div Scale)
    ELSE Str(x)

\* The style of a cell nothing has styled.
DefaultStyle == [centered |-> FALSE, font_color |-> NoColor, bold |-> FALSE]

\* The sheet "FilteredResult" of the new file: row 1 holds the column labels, the
\* rows from 2 on hold the data rows (index=False).
save_filtered_df(df) ==
    [header |-> [i \in 1..Len(df.columns) |-> Txt(df.columns[i])],
     values |-> [j \in 1..Len(df.rows) |->
                    [i \in 1..Len(df.columns) |-> SheetValue(df.rows[j].cells[i])]],
     styles |-> [j \in 1..Len(df.rows) |-> [i \in 1..Len(df.columns) |-> DefaultStyle]],
     number_formats |-> [j \in 1..Len(df.rows) |->
                            [i \in 1..Len(df.columns) |-> "General"]],
     widths |-> <<>>,
     freeze_panes |-> "none"]

\* -------------------------------------------------------- format_excel_file

\* apply_cell_style: the alignment is always set; the font is replaced when the
\* style dict has bold or a font colour.  (No style of the configuration has a
\* fill colour.)
apply_cell_style(cs, sd) ==
    IF sd.bold \/ sd.font_color # NoColor
    THEN [centered |-> TRUE, font_color |-> sd.font_color, bold |-> sd.bold]
    ELSE [centered |-> TRUE, font_color |-> cs.font_color, bold |-> cs.bold]

\* The body of apply_styles' loop for one cell of col_def d: the style, then the
\* conditional style when float() reads the cell and the condition holds.
StyleCell(cs, x, d) ==
    LET based == IF d.style.on THEN apply_cell_style(cs, d.style) ELSE cs
        c == d.conditional_style
        val == Normalize(x)
    IN  IF c.on /\ val.ok /\ Compare(c.op, val, c.val)
        THEN apply_cell_style(based, c)
        ELSE based

\* The sheet column apply_styles walks for the definition at position i of
\* column_definitions: enumerate(column_definitions, 1) gives col_idx = i.
StyleColumn(i) == i

\* The positions of the definitions that have a match.
MatchedIdx(m) ==
    {i \in 1..Len(column_definitions) : column_definitions[i].column_name \in DOMAIN m}

SetMax(S) == CHOOSE x \in S : \A y \in S : y <= x

\* The columns of the sheet after apply_styles: iter_rows creates the cells of a
\* column beyond the data when the sheet has a data row.
MaxColumn(sheet, m) ==
    IF Len(sheet.values) = 0 THEN Len(sheet.header)
    ELSE SetMax({Len(sheet.header)} \cup {StyleColumn(i) : i \in MatchedIdx(m)})

Pad(row, n, filler) == [i \in 1..n |-> IF i <= Len(row) THEN row[i] ELSE filler]

\* for col_idx, col_def in enumerate(column_definitions, 1): ... every cell of
\* column col_idx from row 2 on
apply_styles(sheet, m) ==
    LET n == MaxColumn(sheet, m)
        owner(c) == {i \in MatchedIdx(m) : StyleColumn(i) = c}
    IN  [sheet EXCEPT
           !.header = Pad(sheet.header, n, None),
           !.values = [j \in 1..Len(sheet.values) |-> Pad(sheet.values[j], n, None)],
           !.number_formats = [j \in 1..Len(sheet.values) |->
                                  Pad(sheet.number_formats[j], n, "General")],
           !.styles = [j \in 1..Len(sheet.values) |->
                          [c \in 1..n |->
                              LET cs == Pad(sheet.styles[j], n, DefaultStyle)[c]
                                  x == Pad(sheet.values[j], n, None)[c]
                              IN  IF owner(c) = {} THEN cs
                                  ELSE StyleCell(cs, x,
                                         column_definitions[CHOOSE i \in owner(c) : TRUE])]]]

\* width = the longest str(cell.value) of the column's cells that have a value, + 2
auto_adjust_column_widths(sheet) ==
    [sheet EXCEPT
       !.widths = [c \in 1..Len(sheet.header) |->
                      LET cells == {sheet.header[c]} \cup
                                   {sheet.values[j][c] : j \in 1..Len(sheet.values)}
                          lens == {Len(SheetText(x)) : x \in {y \in cells : y.k # "none"}}
                      IN  (IF lens = {} THEN 0 ELSE SetMax(lens)) + 2]]

freeze_header_and_columns(sheet) == [sheet EXCEPT !.freeze_panes = FREEZING_CELL]

\* The number format of a numeric cell whose magnitude is above 999.
ThousandFormat(x, old) ==
    IF x.k = "num" /\ Abs(x.v) > 999 * Scale
    THEN (IF x.v % Scale = 0 THEN "#,##0" ELSE "#,##0.00")
    ELSE old

apply_thousand_separator(sheet) ==
    [sheet EXCEPT
       !.number_formats = [j \in 1..Len(sheet.values) |->
                              [c \in 1..Len(sheet.values[j]) |->
                                  ThousandFormat(sheet.values[j][c],
                                                 sheet.number_formats[j][c])]]]

format_excel_file(sheet, m) ==
    apply_thousand_separator(
        freeze_header_and_columns(
            auto_adjust_column_widths(apply_styles(sheet, m))))

\* --------------------------------------------------- validate_filtered_rows

\* math.isclose(a, b, abs_tol=tol): never of a nan.  (The relative tolerance, 1e-9,
\* is below the fixed-point unit for the magnitudes of the model.)
IsClose(a, b, tol) == ~a.nan /\ ~b.nan /\ Abs(a.v - b.v) <= tol

\* Mutant of ValidateCell: float(val) is taken before the predicate is checked, so
\* its exception skips the check.
ValidateCellFloatFirst(val, f, tol) ==
    LET numeric_val == Normalize(val)
        as_float == Float(val)
    IN  IF ~numeric_val.ok \/ ~as_float.ok
        THEN [failed |-> FALSE, changed |-> FALSE, skipped |-> TRUE, original |-> numeric_val]
        ELSE [failed |-> ~Compare(f.op, numeric_val, f.val),
              changed |-> ~IsClose(as_float, numeric_val, tol),
              skipped |-> FALSE,
              original |-> numeric_val]

\* The try block of validate_filtered_rows for one value: what it reports of the
\* value before an exception, if any, leaves the block.
ValidateCell(val, f, tol) ==
    LET numeric_val == Normalize(val)
        as_float == Float(val)
    IN  IF ~numeric_val.ok
        THEN [failed |-> FALSE, changed |-> FALSE, skipped |-> TRUE, original |-> numeric_val]
        ELSE [failed |-> ~Compare(f.op, numeric_val, f.val),
              changed |-> as_float.ok /\ ~IsClose(as_float, numeric_val, tol),
              skipped |-> ~as_float.ok,
              original |-> numeric_val]

\* The cells validate_filtered_rows visits: every row of every column that has a
\* filter and a match.
ValidatedCells(df, m, defs) ==
    {[d |-> i, row |-> j] : i \in {k \in 1..Len(defs) :
                                      defs[k].filter.on /\ defs[k].column_name \in DOMAIN m},
                            j \in 1..Len(df.rows)}

validate_filtered_rows(df, m, defs, tol) ==
    LET col(c) == m[defs[c.d].column_name]
        val(c) == df.rows[c.row].cells[ColumnPos(df, col(c))]
        cells == ValidatedCells(df, m, defs)
        out == [c \in cells |-> ValidateCell(val(c), defs[c.d].filter, tol)]
    IN  [all_valid |-> \A c \in cells : ~out[c].failed,
         failures |-> {[idx |-> df.rows[c.row].idx, column |-> defs[c.d].column_name] :
                          c \in {x \in cells : out[x].failed}},
         changed_values |-> {[column |-> col(c), idx |-> df.rows[c.row].idx,
                              original |-> out[c].original] :
                                c \in {x \in cells : out[x].changed}},
         columns_with_rounded_differences |->
             {col(c) : c \in {x \in cells : out[x].changed}},
         skipped |-> {[idx |-> df.rows[c.row].idx, column |-> defs[c.d].column_name] :
                         c \in {x \in cells : out[x].skipped}}]

\* -------------------------------------------------------------- input tables

\* read_excel reads an empty cell, and a text of its default na_values ("N/A", "NA",
\* "", ...), as NaN; any other text that is no number ("-", "NM") stays a string.

\* The most data rows of an input table.
MaxRows == 2

\* The float cell a spreadsheet number is read as.
F(t) == Num(ParseFloat(t).v)

\* Cells of a "No. Yrs" column (filter > 25).
YrsCells ==
    {F(<<"3", "0">>), F(<<"2", "5">>), F(<<"2", "5", ".", "0", "0", "4", "9">>), Txt(<<"-">>), NaN}

\* Cells of a "Div. Yield" column (filter > 1.34, red above 2).
YieldCells ==
    {F(<<"2", ".", "5">>), F(<<"1", ".", "8">>), F(<<"1", ".", "3", "4", "4">>),
     Txt(<<"1", ".", "2", "%">>), Txt(<<"-">>)}

\* Cells of a "DGR 1-yr" column (filter > 6).
DgrCells ==
    {F(<<"6", ".", "0", "0", "4">>), F(<<"7", ".", "5">>), F(<<"5">>), Txt(<<"7", ".", "5", "%">>),
     Txt(<<"N", "M">>)}

\* Cells of an "EPS% Payout" column (filter <= 60).
EpsCells ==
    {F(<<"5", "0", ".", "0", "0", "6">>), F(<<"6", "0", ".", "0", "0", "4">>), F(<<"7", "5">>),
     Txt(<<"1", ",", "2", "0", "0">>), NaN}

\* The header rows of the input sheets, and the cells each column draws from.
Layouts == {
    [columns |-> <<<<"S", "y", "m", "b", "o", "l">>, <<"N", "o", ".", " ", "Y", "r", "s">>, <<"D", "i", "v", ".", " ", "Y", "i", "e", "l", "d">>>>,
     cells |-> <<{Txt(<<"K", "O">>)}, YrsCells, YieldCells>>],
    [columns |-> <<<<"E", "s", "t", " ", "N", "o", ".", " ", "Y", "r", "s">>, <<"N", "o", ".", " ", "Y", "r", "s">>>>,
     cells |-> <<YrsCells, {F(<<"3", "0">>), Txt(<<"-">>)}>>],
    [columns |-> <<<<"d", "i", "v", ".", " ", "y", "i", "e", "l", "d">>, <<"N", "O", ".", " ", "Y", "R", "S">>>>,
     cells |-> <<YieldCells, YrsCells>>],
    [columns |-> <<<<"C", "o", "m", "p", "a", "n", "y", " ", "N", "a", "m", "e">>, <<"D", "G", "R", " ", "1", "-", "y", "r">>, <<"E", "P", "S", "%", " ", "P", "a", "y", "o", "u", "t">>>>,
     cells |-> <<{Txt(<<"A", "c", "m", "e">>)}, DgrCells, EpsCells>>],
    [columns |-> <<<<"C", "o", "m", "p", "a", "n", "y", " ", "N", "a", "m", "e">>, <<"T", "i", "c", "k", "e", "r", " ", "S", "y", "m", "b", "o", "l">>, <<"S", "e", "c", "t", "o", "r">>, <<"I", "n", "d", "u", "s", "t", "r", "y">>,
                   <<"N", "o", ".", " ", "Y", "r", "s">>, <<"P", "r", "i", "c", "e">>, <<"D", "i", "v", ".", " ", "Y", "i", "e", "l", "d">>>>,
     cells |-> <<{Txt(<<"A", "c", "m", "e">>)}, {Txt(<<"A", "C", "M">>)}, {Txt(<<"T", "e", "c", "h">>)}, {Txt(<<"S", "o", "f", "t", "w", "a", "r", "e">>)},
                 {F(<<"3", "0">>), F(<<"2", "5", ".", "0", "0", "4", "9">>), NaN},
                 {F(<<"1", "2", "3", "4", ".", "5", "6", "7">>)}, YieldCells>>] }

\* Every row of cells drawn column by column.
RECURSIVE RowsOf(_)
RowsOf(cells) ==
    IF cells = <<>> THEN {<<>>}
    ELSE {<<x>> \o t : x \in Head(cells), t \in RowsOf(Tail(cells))}

\* The dtype pandas gives a column: object when it holds a string.
DtypeOf(rs, i) ==
    IF \E j \in 1..Len(rs) : rs[j][i].k = "str" THEN "object" ELSE "number"

\* read_excel_data: the header row as the column labels, the data rows below it
\* indexed from 0.
ReadFrame(cols, rs) ==
    DataFrame(cols,
              [i \in 1..Len(cols) |-> DtypeOf(rs, i)],
              [j \in 1..Len(rs) |-> [idx |-> j - 1, cells |-> rs[j]]])

\* --------------------------------------------------------------------- main

VARIABLES
    pc,           \* the statement of main() reached
    data_df,      \* the table read from the input sheet
    matched,      \* column_name -> header
    warnings,     \* the column names reported as not found
    filtered_df,  \* the filtered (then rounded) table
    filter_errors,\* the columns whose filter raised
    ws,           \* the sheet "FilteredResult" of the new file
    report        \* what validate_filtered_rows found; all_valid is its return value

vars == <<pc, data_df, matched, warnings, filtered_df, filter_errors, ws, report>>

EmptyFrame == DataFrame(<<>>, <<>>, <<>>)

EmptySheet == save_filtered_df(EmptyFrame)

EmptyReport ==
    [all_valid |-> TRUE, failures |-> {}, changed_values |-> {},
     columns_with_rounded_differences |-> {}, skipped |-> {}]

Init ==
    /\ pc = "read"
    /\ \E l \in Layouts, n \in 1..MaxRows :
          \E rs \in [1..n -> RowsOf(l.cells)] : data_df = ReadFrame(l.columns, rs)
    /\ matched = <<>>
    /\ warnings = <<>>
    /\ filtered_df = EmptyFrame
    /\ filter_errors = <<>>
    /\ ws = EmptySheet
    /\ report = EmptyReport

\* matched = match_columns(data_df)
Match ==
    /\ pc = "read"
    /\ matched' = match_columns(data_df)
    /\ warnings' = MatchWarnings(data_df)
    /\ pc' = "matched"
    /\ UNCHANGED <<data_df, filtered_df, filter_errors, ws, report>>

\* filtered_df = apply_filters(data_df, matched)
ApplyFilters ==
    /\ pc = "matched"
    /\ filtered_df' = apply_filters(data_df, matched).df
    /\ filter_errors' = apply_filters(data_df, matched).errors
    /\ pc' = "filtered"
    /\ UNCHANGED <<data_df, matched, warnings, ws, report>>

\* apply_filters when a column's filter ran on a frame an earlier filter had left
\* without rows: indexed by a Series that is no boolean mask, the frame selects
\* columns (none) instead of rows, and filtered_df[final_cols] raises KeyError,
\* which ends main().  What Series.apply returns for no rows depends on the pandas
\* version, so the step above is possible in the same states.
ApplyFiltersKeyError ==
    /\ pc = "matched"
    /\ apply_filters(data_df, matched).emptied
    /\ pc' = "raised"
    /\ UNCHANGED <<data_df, matched, warnings, filtered_df, filter_errors, ws, report>>

\* filtered_df = round_numeric_columns(filtered_df)
RoundNumericColumns ==
    /\ pc = "filtered"
    /\ filtered_df' = round_numeric_columns(filtered_df)
    /\ pc' = "rounded"
    /\ UNCHANGED <<data_df, matched, warnings, filter_errors, ws, report>>

\* new_file = save_filtered_df(filtered_df, file_path)
SaveFilteredDf ==
    /\ pc = "rounded"
    /\ ws' = save_filtered_df(filtered_df)
    /\ pc' = "saved"
    /\ UNCHANGED <<data_df, matched, warnings, filtered_df, filter_errors, report>>

\* format_excel_file(new_file, matched)
FormatExcelFile ==
    /\ pc = "saved"
    /\ ws' = format_excel_file(ws, matched)
    /\ pc' = "formatted"
    /\ UNCHANGED <<data_df, matched, warnings, filtered_df, filter_errors, report>>

\* valid_filter = validate_filtered_rows(filtered_df, matched, column_definitions)
ValidateFilteredRows ==
    /\ pc = "formatted"
    /\ report' = validate_filtered_rows(filtered_df, matched, column_definitions, Tolerance)
    /\ pc' = "validated"
    /\ UNCHANGED <<data_df, matched, warnings, filtered_df, filter_errors, ws>>

Next ==
    \/ Match
    \/ ApplyFilters
    \/ ApplyFiltersKeyError
    \/ RoundNumericColumns
    \/ SaveFilteredDf
    \/ FormatExcelFile
    \/ ValidateFilteredRows

Spec == Init /\ [][Next]_vars

\* ------------------------------------------------------------------- claims

\* The positions of the definitions that have a filter and a matched column.
Predicated(m) ==
    {i \in 1..Len(column_definitions) :
        column_definitions[i].filter.on /\ column_definitions[i].column_name \in DOMAIN m}

\* The cell of row j of df in the column matched to definition i.
CellAt(df, j, i) ==
    df.rows[j].cells[ColumnPos(df, matched[column_definitions[i].column_name])]

\* comparator(normalize(cell), threshold) = true; a cell that is null or does not
\* parse does not satisfy the predicate.
Satisfies(x, f) ==
    /\ x.k \notin {"nan", "none"}
    /\ Normalize(x).ok
    /\ Compare(f.op, Normalize(x), f.val)

Filtered == pc \notin {"read", "matched", "raised"}

Rounded == pc \notin {"read", "matched", "raised", "filtered"}

\* C1: every row of the table the pipeline hands on (filtered, then rounded)
\* satisfies the predicate of every predicated, matched column.
C1_FilteredTableSatisfiesPredicates ==
    Rounded =>
        \A i \in Predicated(matched) : \A j \in 1..Len(filtered_df.rows) :
            Satisfies(CellAt(filtered_df, j, i), column_definitions[i].filter)

\* C2: apply_filters drops every row whose cell in a predicated, matched column is
\* null or unparseable, and the column's filter still applies to every other row:
\* the rows of its result all satisfy the column's predicate.
C2_UnparseableRowsDropped ==
    pc = "filtered" =>
        \A i \in Predicated(matched) :
            /\ \A j \in 1..Len(data_df.rows) :
                  (~NotNull(CellAt(data_df, j, i)) \/ ~Normalize(CellAt(data_df, j, i)).ok)
                  => \A r \in 1..Len(filtered_df.rows) :
                        filtered_df.rows[r].idx # data_df.rows[j].idx
            /\ \A r \in 1..Len(filtered_df.rows) :
                  Satisfies(CellAt(filtered_df, r, i), column_definitions[i].filter)

\* The cells of the validated table that parse and violate their column's predicate.
Violations ==
    {[idx |-> filtered_df.rows[j].idx, column |-> column_definitions[i].column_name] :
        <<i, j>> \in {c \in Predicated(matched) \X (1..Len(filtered_df.rows)) :
                        LET n == Normalize(CellAt(filtered_df, c[2], c[1]))
                        IN  n.ok /\ ~Compare(column_definitions[c[1]].filter.op, n,
                                              column_definitions[c[1]].filter.val)}}

\* C3: validate_filtered_rows returns all_valid = true only if no parseable cell of
\* a predicated, matched column violates the column's predicate; every such cell is
\* recorded as a failure.
C3_ValidatorCatchesViolations ==
    pc = "validated" =>
        /\ Violations \subseteq report.failures
        /\ report.all_valid => Violations = {}

\* C3 witness: the validator was given a table with a violating cell that is a
\* text (it parses only without its '%') and returned false.
C3_Witness ==
    /\ pc = "validated"
    /\ ~report.all_valid
    /\ \E i \in Predicated(matched) : \E j \in 1..Len(filtered_df.rows) :
          /\ CellAt(filtered_df, j, i).k = "str"
          /\ [idx |-> filtered_df.rows[j].idx,
              column |-> column_definitions[i].column_name] \in Violations

\* The Filter Engine: apply_filters with the column map matched on its input, then
\* the rounding step.
FilterEngine(df) == round_numeric_columns(apply_filters(df, match_columns(df)).df)

\* C4: re-running the Filter Engine on its own output yields the output unchanged.
C4_FilterEngineIdempotent ==
    pc = "rounded" => FilterEngine(filtered_df) = filtered_df

SetMin(S) == CHOOSE x \in S : \A y \in S : x <= y

\* The elements of a set of numbers in ascending order.
RECURSIVE Ascending(_)
Ascending(S) == IF S = {} THEN <<>> ELSE <<SetMin(S)>> \o Ascending(S \ {SetMin(S)})

\* The names of the definitions in lower case.
LowerNames ==
    [i \in 1..Len(column_definitions) |-> Lower(column_definitions[i].column_name)]

\* The positions of the source headers that contain the name of definition i,
\* whatever the case of the letters.
HeadersOf(i) ==
    {k \in 1..Len(data_df.columns) : IsSubstring(LowerNames[i], Lower(data_df.columns[k]))}

\* C5: the columns of apply_filters' result are the source headers mapped to the
\* matched definitions -- for each the first header containing its name -- in
\* declaration order; a definition no header contains is not in the column map and
\* adds no column.
C5_OutputColumnsInSpecOrder ==
    pc = "filtered" =>
        LET first == [i \in 1..Len(column_definitions) |->
                         IF HeadersOf(i) = {} THEN 0 ELSE SetMin(HeadersOf(i))]
            specs == Ascending({i \in 1..Len(column_definitions) : first[i] # 0})
        IN  /\ filtered_df.columns =
                  [n \in 1..Len(specs) |-> data_df.columns[first[specs[n]]]]
            /\ \A i \in 1..Len(column_definitions) :
                  IF first[i] = 0
                  THEN column_definitions[i].column_name \notin DOMAIN matched
                  ELSE matched[column_definitions[i].column_name] =
                          data_df.columns[first[i]]

\* C5 witness: a table whose two headers are written in another case than the
\* definitions' names and stand in the reverse of the declaration order, with
\* definitions left unmatched, has been filtered.
C5_Witness ==
    /\ pc = "filtered"
    /\ Len(data_df.columns) = 2
    /\ filtered_df.columns = <<data_df.columns[2], data_df.columns[1]>>
    /\ \A i \in 1..Len(column_definitions) :
          column_definitions[i].column_name \notin
              {data_df.columns[k] : k \in 1..Len(data_df.columns)}
    /\ warnings # <<>>

\* Every cell of the predicated, matched columns of the input parses.
AllPredicatedCellsParse ==
    \A i \in Predicated(matched) : \A j \in 1..Len(data_df.rows) :
        NotNull(CellAt(data_df, j, i)) /\ Normalize(CellAt(data_df, j, i)).ok

\* C6: for an input whose predicated cells all parse, apply_filters, then
\* round_numeric_columns, then validate_filtered_rows returns all_valid = true and
\* reports no filter violation.
C6_RoundingKeepsValidity ==
    (pc = "validated" /\ AllPredicatedCellsParse) =>
        report.all_valid /\ report.failures = {}

\* The row of the input table with index label idx.
SourceRow(idx) == CHOOSE j \in 1..Len(data_df.rows) : data_df.rows[j].idx = idx

\* C7: a row of a predicated, matched column whose rounded value differs from its
\* original parsed value by more than the tolerance is recorded, with the original
\* value, in the changed values of the column, and the column is flagged; a row
\* within the tolerance is not recorded.
C7_RoundingDifferencesRecorded ==
    pc = "validated" =>
        \A i \in Predicated(matched) : \A j \in 1..Len(filtered_df.rows) :
            LET idx == filtered_df.rows[j].idx
                col == matched[column_definitions[i].column_name]
                before == Normalize(CellAt(data_df, SourceRow(idx), i))
                after == Normalize(CellAt(filtered_df, j, i))
                drifted == /\ before.ok /\ ~before.nan /\ after.ok /\ ~after.nan
                           /\ Abs(after.v - before.v) > Tolerance
                entry == [column |-> col, idx |-> idx, original |-> before]
            IN  /\ drifted => (entry \in report.changed_values
                               /\ col \in report.columns_with_rounded_differences)
                /\ ~drifted => \A e \in report.changed_values :
                                  ~(e.column = col /\ e.idx = idx)

\* C8: the two call sites normalize alike: a cell fails to normalize in the filter
\* (null, or text float() does not read) exactly when it does in the validator, and
\* a null cell is skipped by the validator, counted as neither pass nor fail.
C8_NormalizerAgreesAtBothSites ==
    pc = "validated" =>
        \A i \in Predicated(matched) : \A j \in 1..Len(filtered_df.rows) :
            LET x == CellAt(filtered_df, j, i)
                key == [idx |-> filtered_df.rows[j].idx,
                        column |-> column_definitions[i].column_name]
                fails_in_filter == ~NotNull(x) \/ CellRaises(x)
                fails_in_validator ==
                    ~ValidateCell(x, column_definitions[i].filter, Tolerance).original.ok
            IN  /\ fails_in_filter <=> fails_in_validator
                /\ ~NotNull(x) => (key \in report.skipped /\ key \notin report.failures)

\* column_definitions with the filters of the predicated, matched definitions
\* taken in the order p gives.
Reordered(p) ==
    [i \in 1..Len(column_definitions) |->
        IF i \in DOMAIN p THEN column_definitions[p[i]] ELSE column_definitions[i]]

\* The index labels of the rows of a table.
RowIds(df) == {df.rows[j].idx : j \in 1..Len(df.rows)}

\* C9: the rows apply_filters keeps do not depend on the order in which the
\* predicated columns are processed: every permutation of the predicated, matched
\* definitions keeps the same rows.
C9_FilterOrderIndependent ==
    pc = "filtered" =>
        \A p \in {q \in [Predicated(matched) -> Predicated(matched)] :
                     \A a, b \in Predicated(matched) : q[a] = q[b] => a = b} :
            RowIds(ApplyFiltersIn(Reordered(p), data_df, matched).df) = RowIds(filtered_df)

\* The style the definition d gives a data cell: its style, and its conditional
\* style if and only if the cell's normalized value satisfies the condition.
ExpectedStyle(d, x) ==
    LET based == IF d.style.on THEN apply_cell_style(DefaultStyle, d.style)
                 ELSE DefaultStyle
    IN  IF d.conditional_style.on /\ Normalize(x).ok
           /\ Compare(d.conditional_style.op, Normalize(x), d.conditional_style.val)
        THEN apply_cell_style(based, d.conditional_style)
        ELSE based

\* C10: the data cells of the sheet column that holds a matched definition's data
\* carry that definition's style, and no other column is styled.
C10_StylesOnOwnColumn ==
    pc \in {"formatted", "validated"} =>
        \A j \in 1..Len(ws.values) : \A c \in 1..Len(ws.header) :
            ws.styles[j][c] =
                IF c <= Len(filtered_df.columns)
                THEN ExpectedStyle(column_definitions[Ascending(MatchedIdx(matched))[c]],
                                   ws.values[j][c])
                ELSE DefaultStyle

====
